---- MODULE Spec2Model ----
(***************************************************************************)
(* pyhockey: the query builder (pyhockey/util/query_builder.py), the input *)
(* validator (pyhockey/util/input_validation.py), the table accessors     *)
(* that call them and the functions that combine a player's seasons.       *)
(*                                                                         *)
(* Python values are records [t, n, s, items]:                             *)
(*   t = "int"   n is the integer                                          *)
(*   t = "bool"  n is 1 (True) or 0 (False)                                *)
(*   t = "float" n is the value in tenths (20240 is 2024.0, 25 is 2.5)     *)
(*   t = "str"   s is the text                                             *)
(*   t = "list"  items is the sequence of element values                   *)
(* A dict is the sequence of its entries in insertion order.               *)
(* Qualifier values are kept as sequences of one-character strings so that *)
(* date parsing can look at their characters; Str turns them into text.    *)
(***************************************************************************)
EXTENDS Integers, Sequences, FiniteSets, TLC

VARIABLES
    table_name,      \* argument of construct_query
    column_mapping,  \* the caller's filter dict (a mutable object)
    qualifiers,      \* the caller's qualifier dict
    order_by,        \* the caller's order_by list
    given_mapping,   \* the filter dict as the caller built it (history)
    results,         \* outcomes of the calls made with these objects, oldest first
    notices,         \* number of notices printed by validate_date_range_inputs
    type_result,     \* outcome of the last direct check_input_type call
    value_result,    \* outcome of the last direct check_input_values call
    acc              \* the accessor call in progress

vars == <<table_name, column_mapping, qualifiers, order_by, given_mapping, results,
          notices, type_result, value_result, acc>>

(***************************************************************************)
(* Python values                                                           *)
(***************************************************************************)
PyInt(k) == [t |-> "int", n |-> k, s |-> "", items |-> <<>>]
PyBool(k) == [t |-> "bool", n |-> k, s |-> "", items |-> <<>>]
PyFloat(tenths) == [t |-> "float", n |-> tenths, s |-> "", items |-> <<>>]
PyStr(x) == [t |-> "str", n |-> 0, s |-> x, items |-> <<>>]
PyList(xs) == [t |-> "list", n |-> 0, s |-> "", items |-> xs]

\* isinstance(v, list)
IsList(v) == v.t = "list"

\* isinstance(v, str)
IsStr(v) == v.t = "str"

\* the classes v is an instance of: bool is a subclass of int
ClassesOf(v) == IF v.t = "bool" THEN {"bool", "int"} ELSE {v.t}

\* isinstance(v, desired_type), desired_type a class or a tuple of classes
IsInstance(v, desired_type) == ClassesOf(v) \cap desired_type # {}

\* a == b for Python scalars: numbers compare by value across int, bool and float
IsNumber(v) == v.t \in {"int", "bool", "float"}
Tenths(v) == IF v.t = "float" THEN v.n ELSE 10 * v.n
PyEq(a, b) ==
    IF IsNumber(a) /\ IsNumber(b) THEN Tenths(a) = Tenths(b)
    ELSE IF a.t = "str" /\ b.t = "str" THEN a.s = b.s
    ELSE FALSE

\* x in xs, xs a list of scalars
PyIn(x, xs) == \E y \in xs : PyEq(x, y)

(***************************************************************************)
(* Text                                                                    *)
(***************************************************************************)
DigitChar(d) ==
    CASE d = 0 -> "0" [] d = 1 -> "1" [] d = 2 -> "2" [] d = 3 -> "3" [] d = 4 -> "4"
      [] d = 5 -> "5" [] d = 6 -> "6" [] d = 7 -> "7" [] d = 8 -> "8" [] d = 9 -> "9"

RECURSIVE NatToStr(_)
NatToStr(k) == IF k < 10 THEN DigitChar(k) ELSE NatToStr(k \div 10) \o DigitChar(k % 10)

\* str(k) for an int
IntToStr(k) == IF k < 0 THEN "-" \o NatToStr(0 - k) ELSE NatToStr(k)

\* f"{v}" for a scalar v
Format(v) ==
    CASE v.t = "int" -> IntToStr(v.n)
      [] v.t = "bool" -> (IF v.n = 1 THEN "True" ELSE "False")
      [] v.t = "float" -> (IF v.n < 0 THEN "-" ELSE "") \o
                          NatToStr((IF v.n < 0 THEN 0 - v.n ELSE v.n) \div 10) \o "." \o
                          DigitChar((IF v.n < 0 THEN 0 - v.n ELSE v.n) % 10)
      [] v.t = "str" -> v.s

\* sep.join(parts)
RECURSIVE Join(_, _)
Join(parts, sep) ==
    IF Len(parts) = 0 THEN ""
    ELSE IF Len(parts) = 1 THEN parts[1]
    ELSE parts[1] \o sep \o Join(Tail(parts), sep)

\* the text of a sequence of characters
Str(chars) == Join(chars, "")

(***************************************************************************)
(* input_validation.py: constants                                          *)
(***************************************************************************)
VALID_SITUATIONS == {PyStr("all"), PyStr("5on5"), PyStr("4on5"), PyStr("5on4"), PyStr("other")}

FirstSeason == 2008
EndSeason == 2026
VALID_SEASONS == {PyInt(k) : k \in FirstSeason .. (EndSeason - 1)}

VALID_TEAMS == {PyStr(x) : x \in
    {"ANA", "ARI", "ATL", "BOS", "BUF", "CAR", "CBJ", "CGY", "CHI", "COL", "DAL", "DET",
     "EDM", "FLA", "L.A", "LAK", "MIN", "MTL", "N.J", "NJD", "NSH", "NYI", "NYR", "OTT",
     "PHI", "PIT", "S.J", "SEA", "SJS", "STL", "T.B", "TBL", "TOR", "UTA", "VAN", "VGK",
     "WPG", "WSH"}}

VALID_INPUT_VALUES ==
    [c \in {"season", "team", "situation"} |->
        CASE c = "season" -> VALID_SEASONS
          [] c = "team" -> VALID_TEAMS
          [] c = "situation" -> VALID_SITUATIONS]

StrColumns == {"name", "gameDate", "team", "state", "situation", "position"}
IntColumns == {"gameID", "season", "shotsAgainst", "goalsAgainst", "gamesPlayed", "goals",
               "lowDangerShots", "mediumDangerShots", "highDangerShots", "lowDangerGoals",
               "mediumDangerGoals", "highDangerGoals", "primaryAssists", "secondaryAssists",
               "shots", "goalsFor", "corsiFor", "corsiAgainst"}
NumColumns == {"iceTime", "xGoalsAgainst", "xGoals", "lowDangerxGoals", "mediumDangerxGoals",
               "highDangerxGoals", "individualxGoals", "xGoalsFor", "xGoalsShare",
               "corsiShare", "xGoalsForPerHour", "xGoalsAgainstPerHour", "goalsForPerHour",
               "goalsAgainstPerHour", "pointsPerHour", "goalsPerHour", "averageIceTime",
               "corsiPercentage"}

COLUMN_SCHEMA ==
    [c \in StrColumns \cup IntColumns \cup NumColumns |->
        IF c \in StrColumns THEN {"str"}
        ELSE IF c \in IntColumns THEN {"int"}
        ELSE {"int", "float"}]

(***************************************************************************)
(* input_validation.py: check_input_values                                 *)
(* The outcome is "True" or the name of the exception raised.              *)
(***************************************************************************)
\* a check that tests scalars only and lets every list pass
ValueRejected_ScalarsOnly(input_value, valid_inputs) ==
    ~IsList(input_value) /\ ~PyIn(input_value, valid_inputs)

\* the test of lines 99-100: the value is rejected
ValueRejected(input_value, valid_inputs) ==
    \/ ~IsList(input_value) /\ ~PyIn(input_value, valid_inputs)
    \/ IsList(input_value) /\
       ~(\A i \in 1 .. Len(input_value.items) : PyIn(input_value.items[i], valid_inputs))

RECURSIVE CheckValuesFrom(_, _)
CheckValuesFrom(mapping, i) ==
    IF i > Len(mapping) THEN "True"
    ELSE IF mapping[i].col \notin DOMAIN VALID_INPUT_VALUES THEN "KeyError"
    ELSE IF ValueRejected(mapping[i].val, VALID_INPUT_VALUES[mapping[i].col])
         THEN "ValueError"
    ELSE CheckValuesFrom(mapping, i + 1)

check_input_values(mapping) == CheckValuesFrom(mapping, 1)

(***************************************************************************)
(* input_validation.py: check_input_type                                   *)
(***************************************************************************)
\* a check that looks at the first element of a list only
FirstBadElement_HeadOnly(items, desired_type, j) ==
    IF Len(items) > 0 /\ ~IsInstance(items[1], desired_type) THEN 1 ELSE 0

\* the inner loop of lines 130-133: position of the first element of the wrong type, 0 if none
RECURSIVE FirstBadElement(_, _, _)
FirstBadElement(items, desired_type, j) ==
    IF j > Len(items) THEN 0
    ELSE IF ~IsInstance(items[j], desired_type) THEN j
    ELSE FirstBadElement(items, desired_type, j + 1)

\* lines 128-136 for one entry: TRUE when a ValueError is raised
TypeRejected(value, desired_type) ==
    IF ~IsInstance(value, desired_type)
    THEN IF IsList(value)
         THEN FirstBadElement(value.items, desired_type, 1) # 0
         ELSE TRUE
    ELSE FALSE

RECURSIVE CheckTypeFrom(_, _)
CheckTypeFrom(mapping, i) ==
    IF i > Len(mapping) THEN "True"
    ELSE IF mapping[i].col \notin DOMAIN COLUMN_SCHEMA THEN "KeyError"
    ELSE IF TypeRejected(mapping[i].val, COLUMN_SCHEMA[mapping[i].col]) THEN "ValueError"
    ELSE CheckTypeFrom(mapping, i + 1)

check_input_type(mapping) == CheckTypeFrom(mapping, 1)

(***************************************************************************)
(* dicts as sequences of entries [col, val] in insertion order             *)
(***************************************************************************)
Keys(d) == {d[i].col : i \in 1 .. Len(d)}

\* d[k], for k a key of d
Get(d, k) == (CHOOSE e \in {d[i] : i \in 1 .. Len(d)} : e.col = k).val

\* del d[k]
Del(d, k) == SelectSeq(d, LAMBDA e : e.col # k)

\* bool(v) for a filter value
Truthy(v) ==
    CASE v.t = "str" -> v.s # ""
      [] v.t = "list" -> Len(v.items) > 0
      [] OTHER -> v.n # 0

(***************************************************************************)
(* datetime.strptime(date, '%Y-%m-%d')                                     *)
(* The format compiles to the regular expression                           *)
(*   (\d\d\d\d)-(1[0-2]|0[1-9]|[1-9])-(3[01]|[12]\d|0[1-9]|[1-9]| [1-9])   *)
(* which must match a prefix of the text; text left over after the match   *)
(* and a day the month does not have are errors too.                       *)
(***************************************************************************)
Digits == {"0", "1", "2", "3", "4", "5", "6", "7", "8", "9"}
PosDigits == Digits \ {"0"}

DigitVal(c) ==
    CASE c = "0" -> 0 [] c = "1" -> 1 [] c = "2" -> 2 [] c = "3" -> 3 [] c = "4" -> 4
      [] c = "5" -> 5 [] c = "6" -> 6 [] c = "7" -> 7 [] c = "8" -> 8 [] c = "9" -> 9
      [] OTHER -> 0

\* the character at position i, "" past the end
At(chars, i) == IF i \in 1 .. Len(chars) THEN chars[i] ELSE ""

\* characters matched by the month group when the text goes on with "-", 0 for no match
MonthWidth(chars) ==
    IF /\ \/ At(chars, 6) = "1" /\ At(chars, 7) \in {"0", "1", "2"}
          \/ At(chars, 6) = "0" /\ At(chars, 7) \in PosDigits
       /\ At(chars, 8) = "-"
    THEN 2
    ELSE IF At(chars, 6) \in PosDigits /\ At(chars, 7) = "-" THEN 1
    ELSE 0

\* characters matched by the day group at position p: the first alternative that matches
DayWidth(chars, p) ==
    IF At(chars, p) = "3" /\ At(chars, p + 1) \in {"0", "1"} THEN 2
    ELSE IF At(chars, p) \in {"1", "2"} /\ At(chars, p + 1) \in Digits THEN 2
    ELSE IF At(chars, p) = "0" /\ At(chars, p + 1) \in PosDigits THEN 2
    ELSE IF At(chars, p) \in PosDigits THEN 1
    ELSE IF At(chars, p) = " " /\ At(chars, p + 1) \in PosDigits THEN 2
    ELSE 0

\* the number written by the characters p .. q (a space counts as nothing)
RECURSIVE FieldVal(_, _, _)
FieldVal(chars, p, q) ==
    IF q < p THEN 0 ELSE 10 * FieldVal(chars, p, q - 1) + DigitVal(chars[q])

IsLeap(y) == (y % 4 = 0 /\ y % 100 # 0) \/ y % 400 = 0

DaysInMonth(y, m) ==
    IF m = 2 THEN (IF IsLeap(y) THEN 29 ELSE 28)
    ELSE IF m \in {4, 6, 9, 11} THEN 30
    ELSE 31

\* TRUE when strptime returns a datetime, FALSE when it raises ValueError
strptime(chars) ==
    /\ \A i \in 1 .. 4 : At(chars, i) \in Digits
    /\ At(chars, 5) = "-"
    /\ MonthWidth(chars) # 0
    /\ LET mw == MonthWidth(chars)
           dp == 7 + mw
           dw == DayWidth(chars, dp)
       IN  /\ dw # 0
           /\ dp + dw - 1 = Len(chars)
           /\ LET y == FieldVal(chars, 1, 4)
                  m == FieldVal(chars, 6, 5 + mw)
                  d == FieldVal(chars, dp, dp + dw - 1)
              IN  /\ y >= 1
                  /\ d <= DaysInMonth(y, m)

(***************************************************************************)
(* query_builder.py: validate_date_range_inputs                            *)
(* Returns [status, mapping, printed]: the exception raised or "ok", the   *)
(* caller's filter dict as the call leaves it, the notices printed.        *)
(***************************************************************************)
\* lines 141-142: season, start_date and end_date are all present and truthy
SeasonOverridden(mapping, quals) ==
    /\ "season" \in Keys(mapping) /\ Truthy(Get(mapping, "season"))
    /\ "start_date" \in Keys(quals) /\ Len(Get(quals, "start_date")) > 0
    /\ "end_date" \in Keys(quals) /\ Len(Get(quals, "end_date")) > 0

validate_date_range_inputs(mapping, quals) ==
    IF "start_date" \in Keys(quals) /\ ~strptime(Get(quals, "start_date"))
    THEN [status |-> "ValueError", mapping |-> mapping, printed |-> 0]
    ELSE IF "end_date" \in Keys(quals) /\ ~strptime(Get(quals, "end_date"))
    THEN [status |-> "ValueError", mapping |-> mapping, printed |-> 0]
    ELSE IF SeasonOverridden(mapping, quals)
    THEN [status |-> "ok", mapping |-> Del(mapping, "season"), printed |-> 1]
    ELSE [status |-> "ok", mapping |-> mapping, printed |-> 0]

(***************************************************************************)
(* query_builder.py: construct_query                                       *)
(***************************************************************************)
\* a builder that forgets the quotes around a string
QuotedCondition_Unquoted(column_name, v) == column_name \o " = " \o Format(v)

\* lines 55 and 66: column = 'v'
QuotedCondition(column_name, v) == column_name \o " = '" \o Format(v) \o "'"

\* lines 57 and 68: column = v
BareCondition(column_name, v) == column_name \o " = " \o Format(v)

\* a builder that iterates set(value): an element is emitted once
FilterCondition_Deduplicated(column_name, value) ==
    IF IsList(value)
    THEN LET firsts == SelectSeq([i \in 1 .. Len(value.items) |-> [at |-> i, v |-> value.items[i]]],
                                 LAMBDA e : \A j \in 1 .. (e.at - 1) : value.items[j] # e.v)
             each == [i \in 1 .. Len(firsts) |->
                         IF IsStr(value.items[1])
                         THEN QuotedCondition(column_name, firsts[i].v)
                         ELSE BareCondition(column_name, firsts[i].v)]
         IN  "(" \o Join(each, " OR ") \o ")"
    ELSE IF IsStr(value) THEN QuotedCondition(column_name, value)
    ELSE BareCondition(column_name, value)

\* lines 52-68 for one entry whose list, if it is one, is not empty
FilterCondition(column_name, value) ==
    IF IsList(value)
    THEN LET each == IF IsStr(value.items[1])
                     THEN [i \in 1 .. Len(value.items) |->
                              QuotedCondition(column_name, value.items[i])]
                     ELSE [i \in 1 .. Len(value.items) |->
                              BareCondition(column_name, value.items[i])]
         IN  "(" \o Join(each, " OR ") \o ")"
    ELSE IF IsStr(value) THEN QuotedCondition(column_name, value)
    ELSE BareCondition(column_name, value)

\* value[0] of line 53 raises IndexError on an empty list
RaisesIndexError(mapping) ==
    \E i \in 1 .. Len(mapping) : IsList(mapping[i].val) /\ Len(mapping[i].val.items) = 0

\* the loop of lines 48-70
FilterConditions(mapping) ==
    [i \in 1 .. Len(mapping) |-> FilterCondition(mapping[i].col, mapping[i].val)]

\* a builder that compares both dates with >=
QualifierCondition_SameOperator(column_name, value) ==
    IF column_name \in {"start_date", "end_date"} THEN "gameDate >= '" \o Str(value) \o "'"
    ELSE column_name \o " " \o Str(value)

\* lines 84-89 for one qualifier
QualifierCondition(column_name, value) ==
    IF column_name = "start_date" THEN "gameDate >= '" \o Str(value) \o "'"
    ELSE IF column_name = "end_date" THEN "gameDate <= '" \o Str(value) \o "'"
    ELSE column_name \o " " \o Str(value)

\* the loop of lines 81-89
QualifierConditions(quals) ==
    [i \in 1 .. Len(quals) |-> QualifierCondition(quals[i].col, quals[i].val)]

\* lines 47-89: the list query_conditions
QueryConditions(mapping, quals) == FilterConditions(mapping) \o QualifierConditions(quals)

\* a builder that writes the clause for an empty order_by too
OrderClause_Always(order) == " ORDER BY " \o Join(order, ", ")

\* lines 95-100: order_by is None or [] (both <<>> here) or a list of names
OrderClause(order) == IF Len(order) > 0 THEN " ORDER BY " \o Join(order, ", ") ELSE ""

\* lines 45, 91-102
QueryText(table, conditions, order) ==
    "SELECT * FROM " \o table \o " WHERE " \o Join(conditions, " AND ") \o OrderClause(order)

Raised(exception, mapping) ==
    [status |-> exception, query |-> "", mapping |-> mapping, printed |-> 0]

\* Returns [status, query, mapping, printed]: "ok" and the query returned, or the
\* exception raised; the caller's filter dict as the call leaves it; notices printed.
construct_query(table, mapping, quals, order) ==
    IF check_input_type(mapping) # "True" THEN Raised(check_input_type(mapping), mapping)
    ELSE IF check_input_values(mapping) # "True"
    THEN Raised(check_input_values(mapping), mapping)
    ELSE IF RaisesIndexError(mapping) THEN Raised("IndexError", mapping)
    ELSE LET dated == Len(quals) > 0 /\ Keys(quals) \cap {"start_date", "end_date"} # {}
             v == IF dated THEN validate_date_range_inputs(mapping, quals)
                  ELSE [status |-> "ok", mapping |-> mapping, printed |-> 0]
         IN  IF v.status # "ok" THEN Raised(v.status, mapping)
             ELSE [status |-> "ok",
                   query |-> QueryText(table, QueryConditions(mapping, quals), order),
                   mapping |-> v.mapping,
                   printed |-> v.printed]

(***************************************************************************)
(* Arguments the callers pass                                              *)
(***************************************************************************)
MaxListLen == 2
MaxCalls == 2

\* all sequences over S of length 0 .. k
SeqsUpTo(S, k) == UNION {[1 .. j -> S] : j \in 0 .. k}

\* the characters of the dates and comparisons used below
Chars(text) ==
    CASE text = "2024-10-30" -> <<"2", "0", "2", "4", "-", "1", "0", "-", "3", "0">>
      [] text = "2025-03-25" -> <<"2", "0", "2", "5", "-", "0", "3", "-", "2", "5">>
      [] text = "2024-13-01" -> <<"2", "0", "2", "4", "-", "1", "3", "-", "0", "1">>
      [] text = "2025-02-30" -> <<"2", "0", "2", "5", "-", "0", "2", "-", "3", "0">>
      [] text = "2024-1-5" -> <<"2", "0", "2", "4", "-", "1", "-", "5">>
      [] text = "<100" -> <<"<", "1", "0", "0">>
      [] text = ">=0" -> <<">", "=", "0">>
      [] text = ">=10" -> <<">", "=", "1", "0">>

\* values tried for each filter column: scalars, and lists of them
Elements(column_name) ==
    CASE column_name = "season" -> {PyInt(2024), PyInt(2025), PyInt(1999), PyStr("2025")}
      [] column_name = "team" -> {PyStr("TOR"), PyStr("MTL"), PyStr("FOO")}
      [] column_name = "situation" -> {PyStr("all"), PyStr("5on5")}
      [] column_name = "name" -> {PyStr("Bob")}
      [] column_name = "gamesPlayed" -> {PyInt(10)}

FilterValues(column_name) ==
    Elements(column_name) \cup
    {PyList(xs) : xs \in SeqsUpTo(Elements(column_name), MaxListLen)}

\* the key orders of the filter dicts tried
KeyOrders ==
    {<<>>, <<"season">>, <<"team">>, <<"situation">>, <<"name">>, <<"gamesPlayed">>,
     <<"team", "season">>, <<"season", "team">>, <<"season", "situation">>,
     <<"name", "team">>}

\* the values tried at position i of key order ks (one placeholder past its end)
ValuesAt(ks, i) == IF i <= Len(ks) THEN FilterValues(ks[i]) ELSE {PyInt(0)}

\* the dict with keys ks, in that order, and the values vs
MakeMapping(ks, vs) == [i \in 1 .. Len(ks) |-> [col |-> ks[i], val |-> vs[i]]]

Entry(column_name, value) == [col |-> column_name, val |-> value]

\* the filter dicts of tests/test_query_builder.py, and two more on the same columns
BaseMappings ==
    {<<Entry("team", PyStr("TOR")), Entry("season", PyInt(2025)),
       Entry("situation", PyStr("5on5"))>>,
     <<Entry("team", PyList(<<PyStr("TOR"), PyStr("MTL"), PyStr("OTT")>>)),
       Entry("season", PyList(<<PyInt(2024), PyInt(2025)>>)),
       Entry("situation", PyList(<<PyStr("all"), PyStr("5on5")>>))>>,
     <<Entry("team", PyStr("TOR")), Entry("season", PyStr("2025"))>>,
     <<Entry("team", PyStr("TOR")), Entry("season", PyList(<<PyInt(2024)>>)),
       Entry("situation", PyList(<<PyStr("all"), PyStr("5on5")>>))>>,
     <<Entry("season", PyInt(2024)), Entry("team", PyStr("FOO"))>>,
     <<Entry("situation", PyStr("all"))>>}

\* the qualifier dicts tried: up to three distinct keys in any order
QualifierValues(column_name) ==
    CASE column_name = "iceTime" -> {Chars("<100")}
      [] column_name = "start_date" -> {Chars("2024-10-30"), Chars("2024-13-01"), Chars("2024-1-5")}
      [] column_name = "end_date" -> {Chars("2025-03-25"), Chars("2025-02-30")}

QualifierKeyOrders ==
    {ks \in SeqsUpTo({"iceTime", "start_date", "end_date"}, 3) :
        \A i, j \in 1 .. Len(ks) : i # j => ks[i] # ks[j]}

RECURSIVE QualifiersFor(_)
QualifiersFor(ks) ==
    IF Len(ks) = 0 THEN {<<>>}
    ELSE {<<[col |-> Head(ks), val |-> v]>> \o rest :
             v \in QualifierValues(Head(ks)), rest \in QualifiersFor(Tail(ks))}

QualifierSets == UNION {QualifiersFor(ks) : ks \in QualifierKeyOrders}

\* the qualifier dicts of tests/test_query_builder.py, and none
BaseQualifiers ==
    {<<>>,
     <<Entry("iceTime", Chars("<100"))>>,
     <<Entry("start_date", Chars("2024-10-30")), Entry("end_date", Chars("2025-03-25"))>>}

OrderBys == {<<>>, <<"name">>, <<"team", "season">>}

(***************************************************************************)
(* A caller holding a filter dict, a qualifier dict and an order_by list   *)
(* calls construct_query with them, again and again.                       *)
(***************************************************************************)
Idle ==
    [pc |-> "idle", fn |-> "", season |-> PyInt(0), team |-> PyStr(""), cutoff |-> 0,
     situation |-> PyStr(""), combine_seasons |-> FALSE, connections |-> 0,
     executed |-> <<>>, printed |-> 0]

Init ==
    /\ table_name = "skaters"
    /\ \/ /\ \E ks \in KeyOrders : \E v1 \in ValuesAt(ks, 1), v2 \in ValuesAt(ks, 2) :
                 column_mapping = MakeMapping(ks, <<v1, v2>>)
          /\ qualifiers \in BaseQualifiers
       \/ column_mapping \in BaseMappings /\ qualifiers \in QualifierSets
    /\ order_by \in OrderBys
    /\ given_mapping = column_mapping
    /\ results = <<>>
    /\ notices = 0
    /\ type_result = "none"
    /\ value_result = "none"
    /\ acc = Idle

\* query = construct_query(table_name, column_mapping, qualifiers, order_by)
CallConstructQuery ==
    /\ Len(results) < MaxCalls
    /\ LET r == construct_query(table_name, column_mapping, qualifiers, order_by)
       IN  /\ results' = Append(results, [status |-> r.status, query |-> r.query,
                                          passed |-> column_mapping])
           /\ column_mapping' = r.mapping
           /\ notices' = notices + r.printed
    /\ UNCHANGED <<table_name, qualifiers, order_by, given_mapping, type_result,
                   value_result, acc>>

Next == CallConstructQuery

Spec == Init /\ [][Next]_vars

(***************************************************************************)
(* What the specification says a query looks like                          *)
(***************************************************************************)
\* c = 'v' for a string, c = n for a number
ExpectedScalar(column_name, v) ==
    IF v.t = "str" THEN column_name \o " = '" \o v.s \o "'"
    ELSE column_name \o " = " \o Format(v)

\* (c = x1 OR c = x2 OR ...) in the order of the list
ExpectedGroup(column_name, xs) ==
    "(" \o Join([i \in 1 .. Len(xs) |-> ExpectedScalar(column_name, xs[i])], " OR ") \o ")"

ExpectedFilters(mapping) ==
    [i \in 1 .. Len(mapping) |->
        IF IsList(mapping[i].val) THEN ExpectedGroup(mapping[i].col, mapping[i].val.items)
        ELSE ExpectedScalar(mapping[i].col, mapping[i].val)]

\* the two orders a builder can put the conditions in
QualifiersFirst(table, filters, quals, order) ==
    "SELECT * FROM " \o table \o " WHERE " \o Join(quals \o filters, " AND ") \o
    OrderClause(order)

FiltersFirst(table, filters, quals, order) ==
    "SELECT * FROM " \o table \o " WHERE " \o Join(filters \o quals, " AND ") \o
    OrderClause(order)

\* a calendar date written YYYY-MM-DD: four, two and two digits
StrictDate(chars) ==
    /\ Len(chars) = 10
    /\ \A i \in {1, 2, 3, 4, 6, 7, 9, 10} : chars[i] \in Digits
    /\ chars[5] = "-" /\ chars[8] = "-"
    /\ LET y == FieldVal(chars, 1, 4)
           m == FieldVal(chars, 6, 7)
           d == FieldVal(chars, 9, 10)
       IN  y >= 1 /\ m \in 1 .. 12 /\ d \in 1 .. DaysInMonth(y, m)

DateKeys == {"start_date", "end_date"}

\* both date qualifiers are there, each a strict date
BothDates(quals) ==
    /\ DateKeys \subseteq Keys(quals)
    /\ \A k \in DateKeys : StrictDate(Get(quals, k))

\* some date qualifier is not a strict date
MalformedDate(quals) ==
    \E i \in 1 .. Len(quals) : quals[i].col \in DateKeys /\ ~StrictDate(quals[i].val)

\* the filters the specification keeps: season gives way to a date range
KeptFilters(mapping, quals) ==
    IF "season" \in Keys(mapping) /\ BothDates(quals) THEN Del(mapping, "season")
    ELSE mapping

\* every value, or every element of a list value, has a type the schema accepts
TypesMatch(mapping) ==
    \A i \in 1 .. Len(mapping) :
        LET v == mapping[i].val
            accepted == COLUMN_SCHEMA[mapping[i].col]
        IN  \/ IsInstance(v, accepted)
            \/ IsList(v) /\ \A j \in 1 .. Len(v.items) : IsInstance(v.items[j], accepted)

\* v is one of the column's valid values: a season 2008 .. 2025, a team code, a situation
Member(v, column_name) ==
    CASE column_name = "season" ->
            IsNumber(v) /\ \E k \in FirstSeason .. (EndSeason - 1) : Tenths(v) = 10 * k
      [] column_name = "team" -> v.t = "str" /\ PyStr(v.s) \in VALID_TEAMS
      [] column_name = "situation" ->
            v.t = "str" /\ v.s \in {"all", "5on5", "4on5", "5on4", "other"}

AllMembers(mapping) ==
    \A i \in 1 .. Len(mapping) :
        LET v == mapping[i].val
        IN  IF IsList(v) THEN \A j \in 1 .. Len(v.items) : Member(v.items[j], mapping[i].col)
            ELSE Member(v, mapping[i].col)

\* every value on season, team and situation is in the column's valid set
InDomain(mapping) ==
    AllMembers(SelectSeq(mapping, LAMBDA e : e.col \in {"season", "team", "situation"}))

AllScalar(mapping) == \A i \in 1 .. Len(mapping) : ~IsList(mapping[i].val)
SomeList(mapping) == \E i \in 1 .. Len(mapping) : IsList(mapping[i].val)
Returned(r) == r.status = "ok"

(***************************************************************************)
(* C1: with a valid filter dict and at least one qualifier, the query is   *)
(* 'SELECT * FROM table WHERE ' and then all conditions joined with        *)
(* ' AND ', every qualifier condition before every filter condition, each  *)
(* group in insertion order.  The code puts the filter conditions first.   *)
(***************************************************************************)
C1_QualifiersBeforeFilters ==
    \A i \in 1 .. Len(results) :
        (Returned(results[i]) /\ Len(qualifiers) > 0) =>
            results[i].query =
                QualifiersFirst(table_name,
                                ExpectedFilters(KeptFilters(results[i].passed, qualifiers)),
                                QualifierConditions(qualifiers), order_by)

(***************************************************************************)
(* C2: with start_date and end_date both well formed and a season filter,  *)
(* the returned query has no condition on season and still has the         *)
(* conditions of the other filters.  The code builds the season condition  *)
(* before it drops season from the dict.                                   *)
(***************************************************************************)
C2_SeasonDroppedFromQuery ==
    \A i \in 1 .. Len(results) :
        (/\ Returned(results[i])
         /\ BothDates(qualifiers)
         /\ "season" \in Keys(results[i].passed)) =>
            LET kept == ExpectedFilters(Del(results[i].passed, "season"))
                quals == QualifierConditions(qualifiers)
            IN  results[i].query \in
                    {QualifiersFirst(table_name, kept, quals, order_by),
                     FiltersFirst(table_name, kept, quals, order_by)}

C5_SameQueryEveryCall ==
    \A i, j \in 1 .. Len(results) :
        (Returned(results[i]) /\ Returned(results[j])) =>
            results[i].query = results[j].query

(***************************************************************************)
(* C8: a filter on a column that has no valid-value set (name,             *)
(* gamesPlayed), with a value of the right type, passes the domain check   *)
(* and construct_query returns a query.  The code looks every column up in *)
(* VALID_INPUT_VALUES and raises KeyError.                                 *)
(***************************************************************************)
C8_OtherColumnsPass ==
    \A i \in 1 .. Len(results) :
        (/\ TypesMatch(results[i].passed)
         /\ InDomain(results[i].passed)
         /\ ~RaisesIndexError(results[i].passed)
         /\ ~MalformedDate(qualifiers)) =>
            Returned(results[i])

(***************************************************************************)
(* C9: a type mismatch, a value outside its domain or a malformed          *)
(* start_date or end_date makes construct_query raise and return no query. *)
(* A date with a one-digit month or day is parsed, and a query returned.   *)
(***************************************************************************)
C9_InvalidInputRaises ==
    \A i \in 1 .. Len(results) :
        (\/ ~TypesMatch(results[i].passed)
         \/ ~InDomain(results[i].passed)
         \/ MalformedDate(qualifiers)) =>
            (~Returned(results[i]) /\ results[i].query = "")

(***************************************************************************)
(* What the specification says about qualifiers, dates and ordering        *)
(***************************************************************************)
\* the filter dict passes both validators and has no empty list
ValidFilters(mapping) ==
    /\ Keys(mapping) \subseteq {"season", "team", "situation"}
    /\ TypesMatch(mapping)
    /\ AllMembers(mapping)
    /\ ~RaisesIndexError(mapping)

\* gameDate >= 'v', gameDate <= 'v', or the column, a space and the fragment
ExpectedQualifier(q) ==
    CASE q.col = "start_date" -> "gameDate >= '" \o Str(q.val) \o "'"
      [] q.col = "end_date" -> "gameDate <= '" \o Str(q.val) \o "'"
      [] OTHER -> q.col \o " " \o Str(q.val)

ExpectedQualifiers(quals) == [i \in 1 .. Len(quals) |-> ExpectedQualifier(quals[i])]

\* the names with ', ' between them
RECURSIVE CommaList(_)
CommaList(names) ==
    IF Len(names) = 1 THEN names[1] ELSE names[1] \o ", " \o CommaList(Tail(names))

\* the query up to its last condition, for each order and each set of kept filters
WhereParts(table, passed, quals, qualconds) ==
    {"SELECT * FROM " \o table \o " WHERE " \o Join(conds, " AND ") :
        conds \in {ExpectedFilters(passed) \o qualconds,
                   qualconds \o ExpectedFilters(passed),
                   ExpectedFilters(KeptFilters(passed, quals)) \o qualconds,
                   qualconds \o ExpectedFilters(KeptFilters(passed, quals))}}

(***************************************************************************)
(* C11: every start_date or end_date that is not a real date written       *)
(* YYYY-MM-DD makes construct_query raise ValueError, and strict dates are *)
(* accepted (the filter dict being valid).  strptime also parses one-digit *)
(* months and days, so '2024-1-5' raises nothing.                          *)
(***************************************************************************)
C11_StrictDatesOnly ==
    \A i \in 1 .. Len(results) :
        ValidFilters(results[i].passed) =>
            /\ MalformedDate(qualifiers) => results[i].status = "ValueError"
            /\ ~MalformedDate(qualifiers) => Returned(results[i])

(***************************************************************************)
(* C12: the returned query has one condition per qualifier, in insertion   *)
(* order: gameDate >= 'v' for start_date, gameDate <= 'v' for end_date,    *)
(* and the column, one space and the fragment for any other qualifier.     *)
(***************************************************************************)
C12_QualifierConditions ==
    \A i \in 1 .. Len(results) :
        Returned(results[i]) =>
            \E w \in WhereParts(table_name, results[i].passed, qualifiers,
                                ExpectedQualifiers(qualifiers)) :
                results[i].query = w \o OrderClause(order_by)

\* a query was returned for end_date, a comparison and start_date, in that order
C12_Witness ==
    \E i \in 1 .. Len(results) :
        /\ Returned(results[i])
        /\ Len(qualifiers) = 3
        /\ qualifiers[1].col = "end_date"
        /\ qualifiers[2].col = "iceTime"
        /\ qualifiers[3].col = "start_date"
        /\ results[i].query =
              "SELECT * FROM skaters WHERE situation = 'all' AND " \o
              "gameDate <= '2025-03-25' AND iceTime <100 AND gameDate >= '2024-10-30'"

(***************************************************************************)
(* C13: the returned query ends with ' ORDER BY ' and the order_by names   *)
(* joined with ', ' in the given order exactly when order_by is a          *)
(* non-empty list; with order_by None or empty it ends with its last       *)
(* condition.                                                              *)
(***************************************************************************)
C13_OrderByLast ==
    \A i \in 1 .. Len(results) :
        Returned(results[i]) =>
            \E w \in WhereParts(table_name, results[i].passed, qualifiers,
                                QualifierConditions(qualifiers)) :
                results[i].query =
                    IF order_by = <<>> THEN w ELSE w \o " ORDER BY " \o CommaList(order_by)

\* a query was returned for an order_by of two names
C13_Witness ==
    \E i \in 1 .. Len(results) :
        /\ Returned(results[i])
        /\ order_by = <<"team", "season">>
        /\ results[i].query =
              "SELECT * FROM skaters WHERE situation = 'all' ORDER BY team, season"

(***************************************************************************)
(* Direct calls of the two validators on a filter dict, as the tests of    *)
(* tests/test_input_validation.py make them.                               *)
(***************************************************************************)
ScalarsV ==
    {PyInt(2024), PyInt(1999), PyStr("TOR"), PyStr("all"), PyFloat(20240), PyBool(1)}

ValuesV == ScalarsV \cup {PyList(xs) : xs \in SeqsUpTo(ScalarsV, MaxListLen)}

\* "player" is not a column of COLUMN_SCHEMA
KeyOrdersV ==
    {<<"season">>, <<"team">>, <<"situation">>, <<"iceTime">>, <<"name">>, <<"player">>,
     <<"season", "team">>, <<"situation", "iceTime">>}

\* the values tried at position i of key order ks (one placeholder past its end)
ValuesAtV(ks, i) == IF i <= Len(ks) THEN ValuesV ELSE {PyInt(0)}

InitV ==
    /\ table_name = ""
    /\ \E ks \in KeyOrdersV : \E v1 \in ValuesAtV(ks, 1), v2 \in ValuesAtV(ks, 2) :
           column_mapping = MakeMapping(ks, <<v1, v2>>)
    /\ qualifiers = <<>>
    /\ order_by = <<>>
    /\ given_mapping = column_mapping
    /\ results = <<>>
    /\ notices = 0
    /\ type_result = "none"
    /\ value_result = "none"
    /\ acc = Idle

\* result = check_input_type(column_mapping)
CallCheckInputType ==
    /\ type_result = "none"
    /\ type_result' = check_input_type(column_mapping)
    /\ UNCHANGED <<table_name, column_mapping, qualifiers, order_by, given_mapping,
                   results, notices, value_result, acc>>

\* result = check_input_values(column_mapping)
CallCheckInputValues ==
    /\ value_result = "none"
    /\ value_result' = check_input_values(column_mapping)
    /\ UNCHANGED <<table_name, column_mapping, qualifiers, order_by, given_mapping,
                   results, notices, type_result, acc>>

NextV == CallCheckInputType \/ CallCheckInputValues

SpecV == InitV /\ [][NextV]_vars

(***************************************************************************)
(* C6: on a filter dict over columns of COLUMN_SCHEMA, check_input_type    *)
(* returns True exactly when every scalar value has one of its column's    *)
(* accepted types and every list value has only elements of those types;   *)
(* otherwise it raises ValueError.                                         *)
(***************************************************************************)
C6_TypeCheckExact ==
    (type_result # "none" /\ Keys(column_mapping) \subseteq DOMAIN COLUMN_SCHEMA) =>
        /\ type_result \in {"True", "ValueError"}
        /\ type_result = "True" <=> TypesMatch(column_mapping)

\* a list whose first element has the right type and whose second has not was rejected
C6_Witness ==
    /\ type_result = "ValueError"
    /\ Len(column_mapping) = 1
    /\ column_mapping[1].col = "season"
    /\ IsList(column_mapping[1].val)
    /\ Len(column_mapping[1].val.items) = 2
    /\ column_mapping[1].val.items[1] = PyInt(2024)
    /\ column_mapping[1].val.items[2] = PyStr("TOR")

(***************************************************************************)
(* C7: on a filter dict over season, team and situation,                   *)
(* check_input_values returns True exactly when every scalar value is in   *)
(* its column's valid set and every list value is a subset of it;          *)
(* otherwise it raises ValueError.                                         *)
(***************************************************************************)
C7_DomainCheckExact ==
    (value_result # "none" /\ Keys(column_mapping) \subseteq {"season", "team", "situation"}) =>
        /\ value_result \in {"True", "ValueError"}
        /\ value_result = "True" <=> AllMembers(column_mapping)

\* a list whose first element is valid and whose second is not was rejected
C7_Witness ==
    /\ value_result = "ValueError"
    /\ Len(column_mapping) = 1
    /\ column_mapping[1].col = "season"
    /\ IsList(column_mapping[1].val)
    /\ Len(column_mapping[1].val.items) = 2
    /\ column_mapping[1].val.items[1] = PyInt(2024)
    /\ column_mapping[1].val.items[2] = PyInt(1999)

(***************************************************************************)
(* goalie_summary.py: goalie_summaries; skater_summary.py: skater_summaries *)
(* acc holds the call: its arguments, the line it has reached (pc), the    *)
(* connections it has created and the queries it has executed.             *)
(***************************************************************************)
\* the characters of str(k), k >= 0
RECURSIVE NatChars(_)
NatChars(k) == IF k < 10 THEN <<DigitChar(k)>> ELSE Append(NatChars(k \div 10), DigitChar(k % 10))

\* lines 34-42: the filter dict, without team when team == 'ALL'
AccessorMapping(a) ==
    IF PyEq(a.team, PyStr("ALL"))
    THEN <<Entry("season", a.season), Entry("situation", a.situation)>>
    ELSE <<Entry("season", a.season), Entry("team", a.team),
           Entry("situation", a.situation)>>

\* lines 44-46: gamesPlayed for goalies, iceTime for skaters
AccessorQualifiers(a) ==
    <<Entry(IF a.fn = "goalie_summaries" THEN "gamesPlayed" ELSE "iceTime",
            <<">", "=">> \o NatChars(a.cutoff))>>

AccessorTable(a) == IF a.fn = "goalie_summaries" THEN "goalies" ELSE "skaters"

\* an accessor that catches the exception and goes on
AfterConstructQuery_Swallowed(r) == "built"

\* where the accessor goes on after construct_query: an exception leaves the function
AfterConstructQuery(r) == IF r.status = "ok" THEN "built" ELSE "raised"

SeasonArgs ==
    {PyInt(2024), PyInt(1999), PyStr("2025"), PyList(<<>>), PyList(<<PyInt(2024)>>),
     PyList(<<PyInt(2024), PyInt(2025)>>), PyList(<<PyInt(2024), PyStr("2025")>>)}
TeamArgs ==
    {PyStr("ALL"), PyStr("TOR"), PyStr("FOO"), PyInt(7),
     PyList(<<PyStr("TOR"), PyStr("MTL")>>), PyList(<<PyStr("TOR"), PyStr("ALL")>>)}
SituationArgs == {PyStr("all"), PyStr("5on5"), PyStr("pp"), PyInt(5)}
CutoffArgs == {0, 10}

InitA ==
    /\ table_name = ""
    /\ column_mapping = <<>>
    /\ qualifiers = <<>>
    /\ order_by = <<>>
    /\ given_mapping = <<>>
    /\ results = <<>>
    /\ notices = 0
    /\ type_result = "none"
    /\ value_result = "none"
    /\ acc \in [pc : {"called"}, fn : {"goalie_summaries", "skater_summaries"},
                season : SeasonArgs, team : TeamArgs, cutoff : CutoffArgs,
                situation : SituationArgs, combine_seasons : BOOLEAN,
                connections : {0}, executed : {<<>>}, printed : {0}]

\* lines 34-46: build the filter dict and the qualifiers
AccBuildArguments ==
    /\ acc.pc = "called"
    /\ table_name' = AccessorTable(acc)
    /\ column_mapping' = AccessorMapping(acc)
    /\ given_mapping' = AccessorMapping(acc)
    /\ qualifiers' = AccessorQualifiers(acc)
    /\ order_by' = <<"team", "season">>
    /\ acc' = [acc EXCEPT !.pc = "arguments"]
    /\ UNCHANGED <<results, notices, type_result, value_result>>

\* line 48: query = construct_query(...)
AccConstructQuery ==
    /\ acc.pc = "arguments"
    /\ LET r == construct_query(table_name, column_mapping, qualifiers, order_by)
       IN  /\ results' = Append(results, [status |-> r.status, query |-> r.query,
                                          passed |-> column_mapping])
           /\ column_mapping' = r.mapping
           /\ notices' = notices + r.printed
           /\ acc' = [acc EXCEPT !.pc = AfterConstructQuery(r)]
    /\ UNCHANGED <<table_name, qualifiers, order_by, given_mapping, type_result,
                   value_result>>

\* line 51: connection = create_connection()
AccCreateConnection ==
    /\ acc.pc = "built"
    /\ acc' = [acc EXCEPT !.pc = "connected", !.connections = @ + 1]
    /\ UNCHANGED <<table_name, column_mapping, qualifiers, order_by, given_mapping,
                   results, notices, type_result, value_result>>

\* line 53: results = connection.sql(query).pl()
AccExecuteQuery ==
    /\ acc.pc = "connected"
    /\ acc' = [acc EXCEPT !.pc = "fetched",
                          !.executed = Append(@, results[Len(results)].query)]
    /\ UNCHANGED <<table_name, column_mapping, qualifiers, order_by, given_mapping,
                   results, notices, type_result, value_result>>

\* lines 55-62: the notice of a combine over one season, and the return
AccReturn ==
    /\ acc.pc = "fetched"
    /\ acc' = [acc EXCEPT !.pc = "returned",
                          !.printed = IF acc.combine_seasons /\ ~IsList(acc.season)
                                      THEN @ + 1 ELSE @]
    /\ UNCHANGED <<table_name, column_mapping, qualifiers, order_by, given_mapping,
                   results, notices, type_result, value_result>>

NextA ==
    \/ AccBuildArguments
    \/ AccConstructQuery
    \/ AccCreateConnection
    \/ AccExecuteQuery
    \/ AccReturn

SpecA == InitA /\ [][NextA]_vars

\* the arguments of the call pass both validators
AccValid == TypesMatch(AccessorMapping(acc)) /\ AllMembers(AccessorMapping(acc))

(***************************************************************************)
(* C10: in goalie_summaries and skater_summaries the connection is created *)
(* and the query executed only after validation and query construction     *)
(* have completed; a call whose validation fails opens no connection and   *)
(* executes no query.                                                      *)
(***************************************************************************)
C10_ValidationBeforeConnection ==
    /\ (acc.connections > 0 \/ Len(acc.executed) > 0) =>
           /\ AccValid
           /\ Len(results) = 1 /\ Returned(results[1])
           /\ \A i \in 1 .. Len(acc.executed) : acc.executed[i] = results[1].query
    /\ (acc.pc # "idle" /\ ~AccValid) => (acc.connections = 0 /\ acc.executed = <<>>)

\* a call with a season of the wrong type has left by the exception, with no connection
C10_Witness ==
    /\ acc.pc = "raised"
    /\ acc.season = PyStr("2025")
    /\ acc.connections = 0

(***************************************************************************)
(* The five accessors and the team sentinel 'ALL'                          *)
(* goalie_summary.py goalie_summaries, skater_summary.py skater_summaries, *)
(* skater_summaries.py skater_summaries (fn "skater_summaries.py"),        *)
(* team_summary.py team_summary and team_games.py team_games.  acc holds   *)
(* the arguments of the call and the line it has reached.                  *)
(***************************************************************************)
PyNone == [t |-> "NoneType", n |-> 0, s |-> "", items |-> <<>>]

\* util/query_builder.py lines 14-57, for the columns skater_summaries.py passes
UTIL_COLUMN_SCHEMA == [c \in {"season", "team", "situation"} |->
                          IF c = "season" THEN {"int"} ELSE {"str"}]

\* util/query_builder.py lines 80-90: the first entry that raises, 0 if none does
RECURSIVE UtilFirstRaise(_, _)
UtilFirstRaise(mapping, i) ==
    IF i > Len(mapping) THEN 0
    ELSE IF \/ mapping[i].col \notin DOMAIN UTIL_COLUMN_SCHEMA
            \/ TypeRejected(mapping[i].val, UTIL_COLUMN_SCHEMA[mapping[i].col])
            \/ IsList(mapping[i].val) /\ Len(mapping[i].val.items) = 0
         THEN i
    ELSE UtilFirstRaise(mapping, i + 1)

\* util/query_builder.py construct_query(table_name, column_mapping, qualifiers):
\* the type check of each column as it is reached, no domain check, no date
\* handling, no ORDER BY
util_construct_query(table, mapping, quals) ==
    LET i == UtilFirstRaise(mapping, 1)
    IN  IF i # 0
        THEN Raised(IF mapping[i].col \notin DOMAIN UTIL_COLUMN_SCHEMA THEN "KeyError"
                    ELSE IF TypeRejected(mapping[i].val, UTIL_COLUMN_SCHEMA[mapping[i].col])
                         THEN "ValueError"
                    ELSE "IndexError", mapping)
        ELSE [status |-> "ok",
              query |-> "SELECT * FROM " \o table \o " WHERE " \o
                        Join(FilterConditions(mapping) \o
                             [k \in 1 .. Len(quals) |-> quals[k].col \o " " \o Str(quals[k].val)],
                             " AND "),
              mapping |-> mapping,
              printed |-> 0]

\* pyhockey/util/query_table.py: hands the filter dict, the qualifiers and order_by
\* to construct_query
query_table(table, mapping, quals, order) == construct_query(table, mapping, quals, order)

Accessors ==
    {"goalie_summaries", "skater_summaries", "skater_summaries.py", "team_summary",
     "team_games"}

\* the filter dict each accessor builds
SentinelMapping(a) ==
    LET full == <<Entry("season", a.season), Entry("team", a.team),
                  Entry("situation", a.situation)>>
        no_team == IF PyEq(a.team, PyStr("ALL")) THEN Del(full, "team") ELSE full
    IN  CASE a.fn = "skater_summaries.py" -> full
          [] a.fn = "team_games" ->
                IF a.season = PyNone THEN Del(no_team, "season") ELSE no_team
          [] OTHER -> no_team

\* the qualifiers each accessor builds
SentinelQualifiers(a) ==
    CASE a.fn = "goalie_summaries" -> <<Entry("gamesPlayed", <<">", "=">> \o NatChars(a.cutoff))>>
      [] a.fn = "skater_summaries" -> <<Entry("iceTime", <<">", "=">> \o NatChars(a.cutoff))>>
      [] a.fn = "skater_summaries.py" -> <<Entry("iceTime", <<">">> \o NatChars(a.cutoff))>>
      [] a.fn = "team_summary" -> <<>>
      [] a.fn = "team_games" ->
            (IF Len(a.start_date) > 0 THEN <<Entry("start_date", a.start_date)>> ELSE <<>>) \o
            (IF Len(a.end_date) > 0 THEN <<Entry("end_date", a.end_date)>> ELSE <<>>)

SentinelTable(a) ==
    CASE a.fn = "goalie_summaries" -> "goalies"
      [] a.fn \in {"skater_summaries", "skater_summaries.py"} -> "skaters"
      [] a.fn = "team_summary" -> "teams"
      [] a.fn = "team_games" -> "team_games"

SentinelOrderBy(a) ==
    CASE a.fn = "skater_summaries.py" -> <<>>
      [] a.fn = "team_games" -> <<"team", "gameDate">>
      [] OTHER -> <<"team", "season">>

\* the checks an accessor makes itself before it builds anything
SentinelRejects(a) ==
    \/ /\ a.fn = "team_games"
       /\ ~Truthy(a.season) /\ Len(a.start_date) = 0 /\ Len(a.end_date) = 0
    \/ /\ a.fn = "skater_summaries.py"
       /\ ~IsStr(a.situation) /\ ~PyIn(a.situation, VALID_SITUATIONS)

SeasonArgsT ==
    {PyInt(2024), PyInt(1999), PyNone, PyList(<<>>), PyList(<<PyInt(2024), PyInt(2025)>>)}

DateArgsT == {<<>>, Chars("2024-10-30"), Chars("2025-03-25")}

InitT ==
    /\ table_name = ""
    /\ column_mapping = <<>>
    /\ qualifiers = <<>>
    /\ order_by = <<>>
    /\ given_mapping = <<>>
    /\ results = <<>>
    /\ notices = 0
    /\ type_result = "none"
    /\ value_result = "none"
    /\ \E fn \in Accessors, season \in SeasonArgsT, team \in TeamArgs,
          situation \in SituationArgs, start_date \in DateArgsT, end_date \in DateArgsT :
          /\ fn # "team_games" => (start_date = <<>> /\ end_date = <<>>)
          /\ acc = [pc |-> "called", fn |-> fn, season |-> season, team |-> team,
                    cutoff |-> 0, situation |-> situation, start_date |-> start_date,
                    end_date |-> end_date]

\* the accessor's own checks, its filter dict, its qualifiers
SentinelBuildArguments ==
    /\ acc.pc = "called"
    /\ IF SentinelRejects(acc)
       THEN /\ acc' = [acc EXCEPT !.pc = "raised"]
            /\ UNCHANGED <<table_name, column_mapping, given_mapping, qualifiers, order_by>>
       ELSE /\ acc' = [acc EXCEPT !.pc = "arguments"]
            /\ table_name' = SentinelTable(acc)
            /\ column_mapping' = SentinelMapping(acc)
            /\ given_mapping' = SentinelMapping(acc)
            /\ qualifiers' = SentinelQualifiers(acc)
            /\ order_by' = SentinelOrderBy(acc)
    /\ UNCHANGED <<results, notices, type_result, value_result>>

\* the call of construct_query or query_table with them
SentinelCallBuilder ==
    /\ acc.pc = "arguments"
    /\ LET r == CASE acc.fn = "skater_summaries.py" ->
                       util_construct_query(table_name, column_mapping, qualifiers)
                  [] acc.fn \in {"team_summary", "team_games"} ->
                       query_table(table_name, column_mapping, qualifiers, order_by)
                  [] OTHER -> construct_query(table_name, column_mapping, qualifiers, order_by)
       IN  /\ results' = Append(results, [status |-> r.status, query |-> r.query,
                                          passed |-> column_mapping])
           /\ column_mapping' = r.mapping
           /\ notices' = notices + r.printed
           /\ acc' = [acc EXCEPT !.pc = AfterConstructQuery(r)]
    /\ UNCHANGED <<table_name, qualifiers, order_by, given_mapping, type_result,
                   value_result>>

NextT == SentinelBuildArguments \/ SentinelCallBuilder

SpecT == InitT /\ [][NextT]_vars

\* the queries that hold team = 'ALL' somewhere among the conditions of the other filters
QueriesWithSentinel(passed) ==
    LET others == ExpectedFilters(Del(passed, "team"))
        quals == QualifierConditions(qualifiers)
    IN  UNION {{QualifiersFirst(table_name, filters, quals, order_by),
                FiltersFirst(table_name, filters, quals, order_by)} :
               filters \in {SubSeq(others, 1, k) \o <<"team = 'ALL'">> \o
                            SubSeq(others, k + 1, Len(others)) : k \in 0 .. Len(others)}}

(***************************************************************************)
(* C14: in every accessor, when team is 'ALL' the filter dict handed to    *)
(* the query builder has no team key and the query has no condition        *)
(* team = 'ALL'.  skater_summaries of skater_summaries.py passes team as   *)
(* it is.                                                                  *)
(***************************************************************************)
C14_SentinelOmitted ==
    acc.team = PyStr("ALL") =>
        /\ acc.pc \in {"arguments", "built"} => "team" \notin Keys(given_mapping)
        /\ \A i \in 1 .. Len(results) :
              /\ "team" \notin Keys(results[i].passed)
              /\ Returned(results[i]) => results[i].query \notin QueriesWithSentinel(results[i].passed)

(***************************************************************************)
(* goalie_summary.py: combine_goalie_seasons                               *)
(* skater_summary.py: combine_skater_seasons                               *)
(* A table is the sequence of its rows, a row a function from column names *)
(* to values.  playerID and the columns cast to Int16 hold integers, the   *)
(* season column holds Python values (an int in the query result, a str in *)
(* the combined table), the expected-goals columns hold floats written in  *)
(* quarters (5 is 1.25), which float addition sums exactly, and the rate   *)
(* columns hold fractions [num, den].                                      *)
(***************************************************************************)
\* goalie_summary.py lines 94-107: the columns of a combined goalie row
GoalieIdentity == <<"name", "team", "situation">>
GoalieTotals ==
    <<"gamesPlayed", "iceTime", "xGoals", "goals",
      "lowDangerShots", "mediumDangerShots", "highDangerShots",
      "lowDangerxGoals", "mediumDangerxGoals", "highDangerxGoals",
      "lowDangerGoals", "mediumDangerGoals", "highDangerGoals">>

\* goalie_summary.py lines 114-130
GoalieInt16 ==
    {"gamesPlayed", "iceTime", "goals", "lowDangerShots", "mediumDangerShots",
     "highDangerShots", "lowDangerGoals", "mediumDangerGoals", "highDangerGoals"}
GoalieFloat32 == {"xGoals", "lowDangerxGoals", "mediumDangerxGoals", "highDangerxGoals"}

\* skater_summary.py lines 98-123: the columns of a combined skater row
SkaterIdentity == <<"name", "team", "position", "situation">>
SkaterTotals ==
    <<"gamesPlayed", "iceTime", "points", "goals", "xGoalsFor", "goalsFor",
      "xGoalsAgainst", "goalsAgainst">>
SkaterRates ==
    <<[total |-> "goalsFor", rate |-> "goalsForPerHour"],
      [total |-> "goalsAgainst", rate |-> "goalsAgainstPerHour"],
      [total |-> "xGoalsFor", rate |-> "xGoalsForPerHour"],
      [total |-> "xGoalsAgainst", rate |-> "xGoalsAgainstPerHour"],
      [total |-> "points", rate |-> "pointsPerHour"],
      [total |-> "goals", rate |-> "goalsPerHour"]>>

\* skater_summary.py lines 129-137
SkaterInt16 == {"gamesPlayed", "points", "goals", "goalsFor", "goalsAgainst"}

\* the columns that hold floats in quarters
QuarterColumns == GoalieFloat32 \cup {"xGoalsFor", "xGoalsAgainst"}

Range(seq) == {seq[i] : i \in 1 .. Len(seq)}

IdentityOf(fn) == IF fn = "combine_goalie_seasons" THEN GoalieIdentity ELSE SkaterIdentity
TotalsOf(fn) == IF fn = "combine_goalie_seasons" THEN GoalieTotals ELSE SkaterTotals
Int16Of(fn) == IF fn = "combine_goalie_seasons" THEN GoalieInt16 ELSE SkaterInt16
RateColumns == {SkaterRates[i].rate : i \in 1 .. Len(SkaterRates)}

ColumnsOf(fn) ==
    {"playerID", "season"} \cup Range(IdentityOf(fn)) \cup Range(TotalsOf(fn)) \cup
    (IF fn = "combine_goalie_seasons" THEN {} ELSE RateColumns \cup {"averageIceTime"})

\* df.filter(pl.col('playerID') == player_id)
PlayerRows(df, player_id) == SelectSeq(df, LAMBDA row : row.playerID = player_id)

\* set(df['playerID'])
PlayerIDs(df) == {df[i].playerID : i \in 1 .. Len(df)}

\* a sort that puts the greatest first
RECURSIVE Sorted_Descending(_)
Sorted_Descending(numbers) ==
    IF numbers = {} THEN <<>>
    ELSE LET greatest == CHOOSE k \in numbers : \A other \in numbers : k >= other
         IN  <<greatest>> \o Sorted_Descending(numbers \ {greatest})

\* list.sort() of a set of ints
RECURSIVE Sorted(_)
Sorted(numbers) ==
    IF numbers = {} THEN <<>>
    ELSE LET least == CHOOSE k \in numbers : \A other \in numbers : k <= other
         IN  <<least>> \o Sorted(numbers \ {least})

\* seasons = list(set(p_df['season'])); seasons.sort()
SeasonsOf(p_df) == Sorted({p_df[i].season.n : i \in 1 .. Len(p_df)})

\* a sum that takes the first row only
ColumnSum_FirstRow(p_df, col) == IF Len(p_df) = 0 THEN 0 ELSE p_df[1][col]

\* p_df[col].sum()
RECURSIVE ColumnSum(_, _)
ColumnSum(p_df, col) ==
    IF Len(p_df) = 0 THEN 0 ELSE p_df[1][col] + ColumnSum(Tail(p_df), col)

\* the value of a total as a fraction: a float column is in quarters
TotalFraction(col, total) ==
    IF col \in QuarterColumns THEN [num |-> total, den |-> 4] ELSE [num |-> total, den |-> 1]

\* total * (60.0 / iceTime), iceTime not 0
PerHour(col, total, iceTime) ==
    [num |-> 60 * TotalFraction(col, total).num, den |-> iceTime * TotalFraction(col, total).den]

\* round(x, 2) of num / den >= 0, in hundredths: to the nearest, a tie to the even one
Round2(num, den) ==
    LET floor == (100 * num) \div den
        twice == 2 * ((100 * num) % den)
    IN  IF twice < den THEN floor
        ELSE IF twice > den THEN floor + 1
        ELSE IF floor % 2 = 0 THEN floor
        ELSE floor + 1

\* lines 97-101 (goalies), 101-105 (skaters): ','.join([str(s) for s in seasons])
SeasonText(seasons) == Join([i \in 1 .. Len(seasons) |-> IntToStr(seasons[i])], ",")

\* the total column a rate column is derived from
TotalColumnOf(rate_col) ==
    (CHOOSE pair \in Range(SkaterRates) : pair.rate = rate_col).total

\* a loop that divides whatever the sums are
DividesByZero_Never(fn, p_df) == FALSE

\* skater_summary.py lines 120 and 122: 60.0 / 0 and iceTime / 0 raise ZeroDivisionError
DividesByZero(fn, p_df) ==
    /\ fn = "combine_skater_seasons"
    /\ ColumnSum(p_df, "iceTime") = 0 \/ ColumnSum(p_df, "gamesPlayed") = 0

\* a rate carried over from the first season's row
RateOf_FirstSeason(p_df, rate_col) == p_df[1][rate_col]

\* line 120: combined_info[total_col] * (60.0 / combined_info['iceTime']), both
\* operands the sums of lines 107-109
RateOf(p_df, rate_col) ==
    PerHour(TotalColumnOf(rate_col), ColumnSum(p_df, TotalColumnOf(rate_col)),
            ColumnSum(p_df, "iceTime"))

\* the dict combined_info of a player with rows in several seasons; a fraction with
\* den 0 stands for the inf or nan a division by zero that does not raise would give
CombinedRow(fn, p_df, player_id) ==
    [c \in ColumnsOf(fn) |->
        CASE c = "playerID" -> player_id
          [] c = "season" -> PyStr(SeasonText(SeasonsOf(p_df)))
          [] c \in Range(IdentityOf(fn)) -> p_df[1][c]
          [] c \in Range(TotalsOf(fn)) -> ColumnSum(p_df, c)
          [] c \in RateColumns -> RateOf(p_df, c)
          [] c = "averageIceTime" ->
                IF ColumnSum(p_df, "gamesPlayed") = 0
                THEN [num |-> ColumnSum(p_df, "iceTime"), den |-> 0]
                ELSE [num |-> Round2(ColumnSum(p_df, "iceTime"),
                                     ColumnSum(p_df, "gamesPlayed")),
                      den |-> 100]]

\* a pass that leaves the season an int
SeasonToString_Kept(row) == row

\* p_df.cast({'season': pl.String}) on one row
SeasonToString(row) == [row EXCEPT !.season = PyStr(IntToStr(row.season.n))]

\* one pass of the loop: the frame appended to player_dfs for player_id
PlayerFrame(fn, df, player_id) ==
    LET p_df == PlayerRows(df, player_id)
    IN  IF Len(SeasonsOf(p_df)) = 1
        THEN [i \in 1 .. Len(p_df) |-> SeasonToString(p_df[i])]
        ELSE <<CombinedRow(fn, p_df, player_id)>>

\* pl.concat(player_dfs), player_dfs not empty
RECURSIVE Concat(_)
Concat(player_dfs) ==
    IF Len(player_dfs) = 0 THEN <<>> ELSE Head(player_dfs) \o Concat(Tail(player_dfs))

\* the values an Int16 holds
Int16 == -32768 .. 32767

\* the strict cast to Int16 fails on a value an Int16 does not hold
CastFails(fn, rows) ==
    \E i \in 1 .. Len(rows) : \E c \in Int16Of(fn) : rows[i][c] \notin Int16

\* cast to Float32 of a float in quarters: 24 significant bits are kept
Float32(quarters) ==
    IF -16777216 <= quarters /\ quarters <= 16777216 THEN quarters
    ELSE 2 * (quarters \div 2)

\* final_df.cast({...}) when no value fails
CastRow(fn, row) ==
    [c \in DOMAIN row |->
        IF fn = "combine_goalie_seasons" /\ c \in GoalieFloat32 THEN Float32(row[c])
        ELSE row[c]]

\* the team codes of the tables below, in the order strings sort
TeamsInOrder == <<"MTL", "TOR">>
TeamRank(team) == CHOOSE i \in 1 .. Len(TeamsInOrder) : TeamsInOrder[i] = team

\* row a may stand before row b in a table sorted by team, then playerID
MayPrecede(a, b) ==
    \/ TeamRank(a.team) < TeamRank(b.team)
    \/ a.team = b.team /\ a.playerID <= b.playerID

\* final_df.sort(by=['team', 'playerID']): the tables the sort can return (rows with
\* equal keys in any order)
SortedTables(rows) ==
    {[i \in 1 .. Len(rows) |-> rows[perm[i]]] :
        perm \in {q \in Permutations(1 .. Len(rows)) :
                    \A i, j \in 1 .. Len(rows) : i < j => MayPrecede(rows[q[i]], rows[q[j]])}}

(***************************************************************************)
(* Calls of the two combine functions on a query result                    *)
(* acc holds the call: the table df passed, the players the loop has still *)
(* to visit (set(df['playerID']) is visited in no particular order), the   *)
(* list player_dfs, and the table returned or the exception raised.        *)
(***************************************************************************)
MaxRows == 3

CombineFunctions == {"combine_goalie_seasons", "combine_skater_seasons"}

\* the statistics of one player-season tried: an ordinary season, a season without a
\* game, a season with games but no ice time, and a season of many minutes
Profiles ==
    {[team |-> "TOR", gamesPlayed |-> 10, iceTime |-> 100, count |-> 3],
     [team |-> "MTL", gamesPlayed |-> 0, iceTime |-> 60, count |-> 0],
     [team |-> "MTL", gamesPlayed |-> 5, iceTime |-> 0, count |-> 1],
     [team |-> "TOR", gamesPlayed |-> 82, iceTime |-> 20000, count |-> 30]}

\* the seasons of the second player are all alike
OtherProfile == [team |-> "MTL", gamesPlayed |-> 7, iceTime |-> 50, count |-> 2]

SeasonsTried == {2022, 2023, 2024}

\* a row of the skaters or goalies table
MakeRow(fn, player_id, season, profile) ==
    [c \in ColumnsOf(fn) |->
        CASE c = "playerID" -> player_id
          [] c = "season" -> PyInt(season)
          [] c = "name" -> (IF player_id = 1 THEN "P1" ELSE "P2")
          [] c = "team" -> profile.team
          [] c = "position" -> "C"
          [] c = "situation" -> "all"
          [] c = "gamesPlayed" -> profile.gamesPlayed
          [] c = "iceTime" -> profile.iceTime
          [] c \in RateColumns -> [num |-> 7, den |-> 2]
          [] c = "averageIceTime" -> [num |-> 1234, den |-> 100]
          [] OTHER -> profile.count]

RowsTried(fn) ==
    {MakeRow(fn, 1, season, profile) : season \in SeasonsTried, profile \in Profiles} \cup
    {MakeRow(fn, 2, season, OtherProfile) : season \in SeasonsTried}

\* a call of fn in progress on table df
Combining(caller, season, combine_seasons, fn, df) ==
    [pc |-> "looping", caller |-> caller, season |-> season,
     combine_seasons |-> combine_seasons, fn |-> fn, df |-> df, todo |-> PlayerIDs(df),
     player_dfs |-> <<>>, status |-> "", out |-> <<>>, printed |-> 0]

InitC ==
    /\ table_name = ""
    /\ column_mapping = <<>>
    /\ qualifiers = <<>>
    /\ order_by = <<>>
    /\ given_mapping = <<>>
    /\ results = <<>>
    /\ notices = 0
    /\ type_result = "none"
    /\ value_result = "none"
    /\ \E fn \in CombineFunctions : \E n \in 0 .. MaxRows : \E df \in [1 .. n -> RowsTried(fn)] :
          acc = Combining("none", PyNone, TRUE, fn, df)

\* lines 82-110 (goalies), 86-125 (skaters): one pass of the loop over the players
CombineNextPlayer ==
    /\ acc.pc = "looping"
    /\ \E player_id \in acc.todo :
          IF Len(SeasonsOf(PlayerRows(acc.df, player_id))) > 1
             /\ DividesByZero(acc.fn, PlayerRows(acc.df, player_id))
          THEN acc' = [acc EXCEPT !.pc = "raised", !.status = "ZeroDivisionError"]
          ELSE acc' = [acc EXCEPT !.todo = @ \ {player_id},
                                  !.player_dfs =
                                      Append(@, PlayerFrame(acc.fn, acc.df, player_id))]
    /\ UNCHANGED <<table_name, column_mapping, qualifiers, order_by, given_mapping,
                   results, notices, type_result, value_result>>

\* a concat that gives the empty table for no frames
ConcatFails_Never(player_dfs) == FALSE

\* pl.concat(player_dfs), line 112 (goalies), 127 (skaters): ValueError on an empty list
ConcatFails(player_dfs) == Len(player_dfs) = 0

\* lines 112-134 (goalies), 127-141 (skaters): concat, cast, sort and return
CombineFinish ==
    /\ acc.pc = "looping"
    /\ acc.todo = {}
    /\ IF ConcatFails(acc.player_dfs)
       THEN acc' = [acc EXCEPT !.pc = "raised", !.status = "ValueError"]
       ELSE IF CastFails(acc.fn, Concat(acc.player_dfs))
       THEN acc' = [acc EXCEPT !.pc = "raised", !.status = "InvalidOperationError"]
       ELSE \E sorted \in SortedTables([i \in 1 .. Len(Concat(acc.player_dfs)) |->
                                           CastRow(acc.fn, Concat(acc.player_dfs)[i])]) :
               acc' = [acc EXCEPT !.pc = "combined", !.status = "ok", !.out = sorted]
    /\ UNCHANGED <<table_name, column_mapping, qualifiers, order_by, given_mapping,
                   results, notices, type_result, value_result>>

NextC == CombineNextPlayer \/ CombineFinish

SpecC == InitC /\ [][NextC]_vars

(***************************************************************************)
(* What the specification says about the combined table                    *)
(***************************************************************************)
\* the call has returned a table or raised
Finished == acc.pc \in {"combined", "raised"}

\* the positions of an entity's rows in a table
EntityRows(df, id) == {i \in 1 .. Len(df) : df[i].playerID = id}

\* the entities of a table
Entities(df) == {df[i].playerID : i \in 1 .. Len(df)}

\* the distinct seasons of an entity
EntitySeasons(df, id) == {df[i].season.n : i \in EntityRows(df, id)}

\* no entity has two rows in one season
OneRowPerEntitySeason(df) ==
    \A i, j \in 1 .. Len(df) :
        (i # j /\ df[i].playerID = df[j].playerID) => df[i].season # df[j].season

\* the sum of a column over the rows at the given positions
RECURSIVE SumOver(_, _, _)
SumOver(df, positions, col) ==
    IF positions = {} THEN 0
    ELSE LET i == CHOOSE k \in positions : TRUE
         IN  df[i][col] + SumOver(df, positions \ {i}, col)

\* the seasons in ascending order, with commas between them
AscendingText(seasons) ==
    LET ascending == CHOOSE sq \in [1 .. Cardinality(seasons) -> seasons] :
                         \A i, j \in 1 .. Cardinality(seasons) : i < j => sq[i] < sq[j]
    IN  Join([i \in 1 .. Cardinality(seasons) |-> NatToStr(ascending[i])], ",")

\* an entity combined over several seasons whose ice time or games sum to zero
ZeroTotals(df) ==
    \E id \in Entities(df) :
        /\ Cardinality(EntitySeasons(df, id)) >= 2
        /\ \/ SumOver(df, EntityRows(df, id), "iceTime") = 0
           \/ SumOver(df, EntityRows(df, id), "gamesPlayed") = 0

(***************************************************************************)
(* C15: for every non-empty table with one row per entity per season (and, *)
(* for skaters, no entity whose combined ice time or games are zero),      *)
(* combine_skater_seasons and combine_goalie_seasons return a table with   *)
(* exactly one row per distinct playerID of the input and with the same    *)
(* set of playerIDs.  A sum above 32767 in a column cast to Int16 makes    *)
(* the call raise instead.                                                 *)
(***************************************************************************)
C15_OneRowPerPlayer ==
    (/\ Finished
     /\ Len(acc.df) > 0
     /\ OneRowPerEntitySeason(acc.df)
     /\ acc.fn = "combine_skater_seasons" => ~ZeroTotals(acc.df)) =>
        /\ acc.status = "ok"
        /\ Entities(acc.out) = Entities(acc.df)
        /\ \A id \in Entities(acc.df) : Cardinality(EntityRows(acc.out, id)) = 1

(***************************************************************************)
(* C16: for every entity with rows in two or more seasons, the season      *)
(* field of its row in the returned table is its distinct seasons in       *)
(* ascending order joined with commas, whatever the order of the input     *)
(* rows.                                                                   *)
(***************************************************************************)
C16_SeasonsAscending ==
    acc.pc = "combined" =>
        \A id \in Entities(acc.df) :
            Cardinality(EntitySeasons(acc.df, id)) >= 2 =>
                /\ EntityRows(acc.out, id) # {}
                /\ \A j \in EntityRows(acc.out, id) :
                      acc.out[j].season = PyStr(AscendingText(EntitySeasons(acc.df, id)))

\* a table listing 2024, 2022, 2023 for one player came back as 2022,2023,2024
C16_Witness ==
    /\ acc.pc = "combined"
    /\ Len(acc.df) = 3
    /\ acc.df[1].season = PyInt(2024)
    /\ acc.df[2].season = PyInt(2022)
    /\ acc.df[3].season = PyInt(2023)
    /\ Len(acc.out) = 1
    /\ acc.out[1].season = PyStr("2022,2023,2024")

(***************************************************************************)
(* C17: for every entity with rows in two or more seasons, each summed     *)
(* column of its row in the returned table is the sum of that column over  *)
(* the entity's own input rows; rows of other entities do not contribute.  *)
(***************************************************************************)
C17_TotalsAreSums ==
    acc.pc = "combined" =>
        \A id \in Entities(acc.df) :
            Cardinality(EntitySeasons(acc.df, id)) >= 2 =>
                /\ EntityRows(acc.out, id) # {}
                /\ \A j \in EntityRows(acc.out, id) : \A col \in Range(TotalsOf(acc.fn)) :
                      acc.out[j][col] = SumOver(acc.df, EntityRows(acc.df, id), col)

\* player 1 was combined over two seasons of 10 games next to a row of player 2
C17_Witness ==
    /\ acc.pc = "combined"
    /\ Len(acc.df) = 3
    /\ Cardinality(EntityRows(acc.df, 1)) = 2
    /\ Cardinality(EntityRows(acc.df, 2)) = 1
    /\ \E j \in 1 .. Len(acc.out) :
          /\ acc.out[j].playerID = 1
          /\ acc.out[j].gamesPlayed = 20
          /\ acc.out[j].iceTime = 200
          /\ acc.out[j].goals = 6

(***************************************************************************)
(* C18: an entity whose rows all belong to one season keeps its rows, with *)
(* every field as in the input except season, which is the string form of  *)
(* that season; nothing is summed and no rate is derived for it.           *)
(***************************************************************************)
C18_SingleSeasonUnchanged ==
    acc.pc = "combined" =>
        \A id \in Entities(acc.df) :
            Cardinality(EntitySeasons(acc.df, id)) = 1 =>
                /\ Cardinality(EntityRows(acc.out, id)) = Cardinality(EntityRows(acc.df, id))
                /\ \A j \in EntityRows(acc.out, id) : \E i \in EntityRows(acc.df, id) :
                      acc.out[j] =
                          [acc.df[i] EXCEPT !.season = PyStr(NatToStr(acc.df[i].season.n))]

\* player 2, in one season, came back next to the combined row of player 1
C18_Witness ==
    /\ acc.pc = "combined"
    /\ Len(acc.df) = 3
    /\ Cardinality(EntitySeasons(acc.df, 1)) = 2
    /\ \E j \in 1 .. Len(acc.out) :
          /\ acc.out[j].playerID = 2
          /\ acc.out[j].season = PyStr("2024")
          /\ acc.out[j].iceTime = 50

(***************************************************************************)
(* C19: when an entity combined over two or more seasons has summed        *)
(* iceTime 0 or summed gamesPlayed 0, combine_skater_seasons raises        *)
(* ZeroDivisionError and returns no table; no table it returns holds an    *)
(* infinite or undefined rate or averageIceTime.                           *)
(***************************************************************************)
C19_ZeroTotalsRaise ==
    acc.fn = "combine_skater_seasons" =>
        /\ (Finished /\ ZeroTotals(acc.df)) =>
              (acc.status = "ZeroDivisionError" /\ acc.out = <<>>)
        /\ \A j \in 1 .. Len(acc.out) : \A col \in RateColumns \cup {"averageIceTime"} :
              acc.out[j][col].den # 0

\* two seasons with ice time but no game made the call raise
C19_Witness ==
    /\ acc.fn = "combine_skater_seasons"
    /\ acc.pc = "raised"
    /\ acc.status = "ZeroDivisionError"
    /\ SumOver(acc.df, EntityRows(acc.df, 1), "gamesPlayed") = 0
    /\ SumOver(acc.df, EntityRows(acc.df, 1), "iceTime") = 120

(***************************************************************************)
(* goalie_summaries and skater_summaries (skater_summary.py) from the      *)
(* query result on: the combine_seasons branch, the call of the combine    *)
(* function, the rounding of skater_summaries, the return.                 *)
(***************************************************************************)
\* round(2) of a fraction, in hundredths
RoundFraction(f) == [num |-> Round2(f.num, f.den), den |-> 100]

\* skater_summary.py line 64: results.with_columns(sc.float().round(2)); the floats in
\* quarters have two decimals already
RoundFloats(table) ==
    [i \in 1 .. Len(table) |->
        [c \in DOMAIN table[i] |->
            IF c \in RateColumns \cup {"averageIceTime"} THEN RoundFraction(table[i][c])
            ELSE table[i][c]]]

\* the table the accessor returns when it reaches its last lines with table
AccessorResult(caller, table) ==
    IF caller = "skater_summaries" THEN RoundFloats(table) ELSE table

CombineFunctionOf(caller) ==
    IF caller = "goalie_summaries" THEN "combine_goalie_seasons" ELSE "combine_skater_seasons"

\* the season arguments tried, and the seasons each asks the database for
SeasonArgsR == {PyInt(2024), PyList(<<PyInt(2024)>>), PyList(<<PyInt(2023), PyInt(2024)>>)}
SeasonsAsked(season) ==
    IF IsList(season) THEN {season.items[i].n : i \in 1 .. Len(season.items)} ELSE {season.n}

InitR ==
    /\ table_name = ""
    /\ column_mapping = <<>>
    /\ qualifiers = <<>>
    /\ order_by = <<>>
    /\ given_mapping = <<>>
    /\ results = <<>>
    /\ notices = 0
    /\ type_result = "none"
    /\ value_result = "none"
    /\ \E caller \in {"goalie_summaries", "skater_summaries"}, season \in SeasonArgsR,
          combine_seasons \in BOOLEAN :
          \E n \in 0 .. MaxRows :
             \E df \in [1 .. n -> {row \in RowsTried(CombineFunctionOf(caller)) :
                                      row.season.n \in SeasonsAsked(season)}] :
                acc = [Combining(caller, season, combine_seasons,
                                 CombineFunctionOf(caller), df)
                          EXCEPT !.pc = "fetched"]

\* goalie_summary.py lines 55-62, skater_summary.py lines 56-66, up to the call of the
\* combine function
AccessorBranch ==
    /\ acc.pc = "fetched"
    /\ IF acc.combine_seasons /\ ~IsInstance(acc.season, {"list"})
       THEN acc' = [acc EXCEPT !.pc = "returned", !.status = "ok", !.out = acc.df,
                               !.printed = @ + 1]
       ELSE IF acc.combine_seasons
       THEN acc' = [acc EXCEPT !.pc = "looping"]
       ELSE acc' = [acc EXCEPT !.pc = "returned", !.status = "ok",
                               !.out = AccessorResult(acc.caller, acc.df)]
    /\ UNCHANGED <<table_name, column_mapping, qualifiers, order_by, given_mapping,
                   results, notices, type_result, value_result>>

\* goalie_summary.py line 62, skater_summary.py lines 63-66, after the combine function
AccessorReturn ==
    /\ acc.pc = "combined"
    /\ acc.caller # "none"
    /\ acc' = [acc EXCEPT !.pc = "returned", !.out = AccessorResult(acc.caller, acc.out)]
    /\ UNCHANGED <<table_name, column_mapping, qualifiers, order_by, given_mapping,
                   results, notices, type_result, value_result>>

NextR == AccessorBranch \/ CombineNextPlayer \/ CombineFinish \/ AccessorReturn

SpecR == InitR /\ [][NextR]_vars

\* the request names one season: a scalar or a list of one element
SingleSeason(season) == ~IsList(season) \/ Len(season.items) = 1

\* two rows hold the same values: fractions are compared by value
SameRow(a, b) ==
    /\ DOMAIN a = DOMAIN b
    /\ \A c \in DOMAIN a :
          IF c \in RateColumns \cup {"averageIceTime"}
          THEN a[c].num * b[c].den = b[c].num * a[c].den
          ELSE a[c] = b[c]

SameTable(a, b) == Len(a) = Len(b) /\ \A i \in 1 .. Len(a) : SameRow(a[i], b[i])

(***************************************************************************)
(* C20: with combine_seasons true and a single season requested, as a      *)
(* scalar or as a list of one element, goalie_summaries and                *)
(* skater_summaries return the query result unmodified, raise nothing and  *)
(* print the notice.  A list of one element prints no notice and goes      *)
(* through the combine function.                                           *)
(***************************************************************************)
C20_SingleSeasonNoOp ==
    (/\ acc.pc \in {"returned", "raised"}
     /\ acc.caller # "none"
     /\ acc.combine_seasons
     /\ SingleSeason(acc.season)) =>
        /\ acc.pc = "returned"
        /\ SameTable(acc.out, acc.df)
        /\ acc.printed = 1

(***************************************************************************)
(* C21: construct_query never mutates its arguments: over every call,      *)
(* returning or raising, the caller's filter dict and qualifier dict keep  *)
(* the keys and values they had.  With season, start_date and end_date     *)
(* given, validate_date_range_inputs deletes season from the caller's      *)
(* dict.                                                                   *)
(***************************************************************************)
C21_ArgumentsUntouched ==
    [][column_mapping' = column_mapping /\ qualifiers' = qualifiers]_vars

(***************************************************************************)
(* C22: every query construct_query returns has at least one condition     *)
(* after 'WHERE ', also for an empty filter dict with no qualifiers.  For  *)
(* that input the code returns the text up to 'WHERE ' and nothing after   *)
(* it but the ORDER BY part.                                               *)
(***************************************************************************)
C22_WhereHasCondition ==
    \A i \in 1 .. Len(results) :
        Returned(results[i]) =>
            /\ Len(results[i].passed) + Len(qualifiers) >= 1
            /\ results[i].query # "SELECT * FROM " \o table_name \o " WHERE "
            /\ order_by # <<>> =>
                  results[i].query # "SELECT * FROM " \o table_name \o " WHERE "
                                        \o " ORDER BY " \o CommaList(order_by)

\* the counting column each rate field of a skater is derived from
OwnCountingColumn ==
    [goalsForPerHour |-> "goalsFor", goalsAgainstPerHour |-> "goalsAgainst",
     xGoalsForPerHour |-> "xGoalsFor", xGoalsAgainstPerHour |-> "xGoalsAgainst",
     pointsPerHour |-> "points", goalsPerHour |-> "goals"]

RECURSIVE GCD(_, _)
GCD(a, b) == IF b = 0 THEN a ELSE GCD(b, a % b)

\* a fraction of naturals in lowest terms
Lowest(f) == [num |-> f.num \div GCD(f.num, f.den), den |-> f.den \div GCD(f.num, f.den)]

\* the fraction rate is 60 * total / iceTime, total counted in units of 1 / unit
IsSixtyTimesQuotient(rate, total, unit, iceTime) ==
    /\ rate.den # 0
    /\ Lowest(rate) = Lowest([num |-> 60 * total, den |-> iceTime * unit])

\* the fraction value is a whole number of hundredths no further than half a
\* hundredth from num / den
IsRoundedTo2(value, num, den) ==
    /\ value.den # 0
    /\ (100 * value.num) % value.den = 0
    /\ LET distance == value.num * den - num * value.den
       IN  200 * (IF distance < 0 THEN 0 - distance ELSE distance) <= value.den * den

(***************************************************************************)
(* C23: for every skater combined over two or more seasons, each rate      *)
(* field is 60 times the sum of its own counting column divided by the sum *)
(* of iceTime, and averageIceTime is the sum of iceTime divided by the sum *)
(* of gamesPlayed, rounded to 2 decimals.                                  *)
(***************************************************************************)
C23_RatesFromSums ==
    (acc.pc = "combined" /\ acc.fn = "combine_skater_seasons") =>
        \A id \in Entities(acc.df) :
            Cardinality(EntitySeasons(acc.df, id)) >= 2 =>
                /\ EntityRows(acc.out, id) # {}
                /\ \A j \in EntityRows(acc.out, id) :
                      /\ \A rate_col \in DOMAIN OwnCountingColumn :
                            IsSixtyTimesQuotient(
                                acc.out[j][rate_col],
                                SumOver(acc.df, EntityRows(acc.df, id),
                                        OwnCountingColumn[rate_col]),
                                IF OwnCountingColumn[rate_col] \in QuarterColumns
                                THEN 4 ELSE 1,
                                SumOver(acc.df, EntityRows(acc.df, id), "iceTime"))
                      /\ IsRoundedTo2(
                            acc.out[j].averageIceTime,
                            SumOver(acc.df, EntityRows(acc.df, id), "iceTime"),
                            SumOver(acc.df, EntityRows(acc.df, id), "gamesPlayed"))

\* skater 1 has 10 games, 100 of ice time and 3 goals in one season and 5 games,
\* no ice time and 1 goal in another: 4 goals in 100 are 2.4 an hour and the mean
\* ice time 6.67, neither of them the 3.5 and 12.34 of the rows
C23_Witness ==
    /\ acc.pc = "combined"
    /\ acc.fn = "combine_skater_seasons"
    /\ Cardinality(EntitySeasons(acc.df, 1)) = 2
    /\ \E j \in 1 .. Len(acc.out) :
          /\ acc.out[j].playerID = 1
          /\ acc.out[j].gamesPlayed = 15
          /\ acc.out[j].iceTime = 100
          /\ acc.out[j].goals = 4
          /\ acc.out[j].goalsPerHour.num * 100 = 240 * acc.out[j].goalsPerHour.den
          /\ acc.out[j].averageIceTime = [num |-> 667, den |-> 100]

\* every value of a column that is cast to 16 bits fits in 16 bits, row by row
RowsFit16(fn, df) ==
    \A i \in 1 .. Len(df) : \A col \in Int16Of(fn) : df[i][col] \in -32768 .. 32767

(***************************************************************************)
(* C24: on a table whose counting values each fit in 16 bits, the final    *)
(* cast to 16-bit integers never fails and changes no value: every cast    *)
(* column of an entity still holds the exact sum of the entity's rows,     *)
(* also when the sum is above 32767.  The cast is strict: a goalie whose   *)
(* iceTime sums to 40000 makes it raise.                                   *)
(***************************************************************************)
C24_CastKeepsSums ==
    (Finished /\ RowsFit16(acc.fn, acc.df)) =>
        /\ acc.status # "InvalidOperationError"
        /\ acc.pc = "combined" =>
              \A id \in Entities(acc.df) : \A col \in Int16Of(acc.fn) :
                  SumOver(acc.out, EntityRows(acc.out, id), col) =
                      SumOver(acc.df, EntityRows(acc.df, id), col)

\* some filter of the dict has an empty list for its value
HasEmptyList(mapping) ==
    \E k \in 1 .. Len(mapping) : mapping[k].val = PyList(<<>>)

(***************************************************************************)
(* C25: a filter dict with an empty list among otherwise acceptable        *)
(* filters passes check_input_type and check_input_values, and             *)
(* construct_query then raises on reading the list's first element; no     *)
(* call given an empty list returns a query.  On a column without a valid- *)
(* value set, name for one, check_input_values raises KeyError first.      *)
(***************************************************************************)
C25_EmptyListFailsAtFirstElement ==
    \A i \in 1 .. Len(results) :
        /\ (/\ HasEmptyList(results[i].passed)
            /\ TypesMatch(results[i].passed)
            /\ InDomain(results[i].passed)) =>
               /\ check_input_type(results[i].passed) = "True"
               /\ check_input_values(results[i].passed) = "True"
               /\ results[i].status = "IndexError"
        /\ Returned(results[i]) => ~HasEmptyList(results[i].passed)

(***************************************************************************)
(* C26: when the query result has no rows, goalie_summaries and            *)
(* skater_summaries called with a list of seasons and combine_seasons true *)
(* return no table: the combine function has no frame to concatenate and   *)
(* raises.                                                                 *)
(***************************************************************************)
C26_EmptyResultRaises ==
    (/\ acc.pc \in {"combined", "returned", "raised"}
     /\ acc.caller # "none"
     /\ acc.combine_seasons
     /\ IsList(acc.season)
     /\ Len(acc.df) = 0) =>
        /\ acc.pc = "raised"
        /\ acc.status = "ValueError"
        /\ acc.out = <<>>

\* skater_summaries asked for 2023 and 2024 combined, the query matched no row and
\* combine_skater_seasons raised
C26_Witness ==
    /\ acc.pc = "raised"
    /\ acc.status = "ValueError"
    /\ acc.caller = "skater_summaries"
    /\ acc.fn = "combine_skater_seasons"
    /\ acc.combine_seasons
    /\ IsList(acc.season) /\ Len(acc.season.items) = 2
    /\ Len(acc.df) = 0
    /\ acc.player_dfs = <<>>

====
